---- MODULE Spec2Model ----
(***************************************************************************)
(* Model of scripts/print_dev_summary.py: the indentation parser           *)
(* parse_yaml and the reporter main.                                       *)
(*                                                                         *)
(* A Python str is the sequence of its code points (ord of each character),*)
(* so "a: x" is <<97, 58, 32, 120>>.  Dict objects                         *)
(* live in a heap (a sequence of dict contents, heap[1] is root); a dict   *)
(* content is a sequence of [k, v] entries in iteration order.  A value is *)
(* a record [kind, s, ref] with kind in {"str", "dict", "list", "none"}.   *)
(***************************************************************************)
EXTENDS Integers, Sequences, FiniteSets, TLC

VARIABLES lines, ln, pc, indent, key, value, heap, stack, log, env, out

vars == <<lines, ln, pc, indent, key, value, heap, stack, log, env, out>>

parseVars == <<lines, ln, indent, key, value, heap, stack, log>>

(***************************************************************************)
(* Bounds of the checked inputs.                                           *)
(***************************************************************************)
MaxLines == 3

MaxIndent == 2

(***************************************************************************)
(* Python str primitives.                                                  *)
(***************************************************************************)
\* The characters the program tests for.
Space == 32

Colon == 58

Hash == 35

DQuote == 34

SQuote == 39

\* The characters str.strip() removes: those with str.isspace(), which are
\* \t \n \x0b \f \r, \x1c-\x1f, space, \x85, \xa0, U+1680, U+2000-U+200A,
\* U+2028, U+2029, U+202F, U+205F and U+3000.
Whitespace ==
    (9..13) \cup (28..32) \cup {133, 160, 5760} \cup (8192..8202)
    \cup {8232, 8233, 8239, 8287, 12288}

\* str.lstrip(chars): drop the leading characters that are in cs.
LStripSet(s, cs) ==
    LET n == CHOOSE m \in 0..Len(s) :
                 /\ m = Len(s) \/ s[m + 1] \notin cs
                 /\ \A i \in 1..m : s[i] \in cs
    IN SubSeq(s, n + 1, Len(s))

\* str.rstrip(chars): drop the trailing characters that are in cs.
RStripSet(s, cs) ==
    LET n == CHOOSE m \in 0..Len(s) :
                 /\ m = Len(s) \/ s[Len(s) - m] \notin cs
                 /\ \A i \in 1..m : s[Len(s) - i + 1] \in cs
    IN SubSeq(s, 1, Len(s) - n)

\* str.strip() with no argument.
Strip(s) == RStripSet(LStripSet(s, Whitespace), Whitespace)

\* str.startswith(c) for a one-character c.
StartsWith(s, c) == s # <<>> /\ Head(s) = c

\* str.endswith(c) for a one-character c.
EndsWith(s, c) == s # <<>> /\ s[Len(s)] = c

\* Index of the first ":" of s, 0 when there is none.
FirstColon(s) ==
    IF \E i \in 1..Len(s) : s[i] = Colon
    THEN CHOOSE i \in 1..Len(s) : s[i] = Colon /\ \A j \in 1..(i - 1) : s[j] # Colon
    ELSE 0

\* key, _, value = stripped.partition(":")
Partition(s) ==
    LET c == FirstColon(s) IN
    IF c = 0 THEN [key |-> s, value |-> <<>>]
    ELSE [key |-> SubSeq(s, 1, c - 1), value |-> SubSeq(s, c + 1, Len(s))]

\* Variant: only blank lines are skipped.
SkippedBlankOnly(raw_line) == Strip(raw_line) = <<>>

\* if not stripped or stripped.startswith("#"): continue
Skipped(raw_line) ==
    LET stripped == Strip(raw_line) IN stripped = <<>> \/ StartsWith(stripped, Hash)

\* indent = len(raw_line) - len(raw_line.lstrip(" "))
IndentOf(raw_line) == Len(raw_line) - Len(LStripSet(raw_line, {Space}))

\* value[1:-1]
Slice1(s) == SubSeq(s, 2, Len(s) - 1)

\* The quote test and slice of the scalar branch.
Unquote(v) ==
    IF (StartsWith(v, DQuote) /\ EndsWith(v, DQuote)) \/ (StartsWith(v, SQuote) /\ EndsWith(v, SQuote))
    THEN Slice1(v)
    ELSE v

(***************************************************************************)
(* Values and dicts.                                                       *)
(***************************************************************************)
StrVal(s) == [kind |-> "str", s |-> s, ref |-> 0]

\* A reference to the dict object heap[r]; ref 0 is a fresh empty dict
\* (the default argument {} of dict.get).
DictVal(r) == [kind |-> "dict", s |-> <<>>, ref |-> r]

ListVal == [kind |-> "list", s |-> <<>>, ref |-> 0]

NoneVal == [kind |-> "none", s |-> <<>>, ref |-> 0]

HasKey(d, k) == \E i \in 1..Len(d) : d[i].k = k

\* Variant: an existing key keeps its old value (setdefault).
DictSetKeepFirst(d, k, v) ==
    IF HasKey(d, k) THEN d ELSE Append(d, [k |-> k, v |-> v])

\* Variant: overwriting a key moves it to the end of the iteration order.
DictSetMoveToEnd(d, k, v) ==
    Append(SelectSeq(d, LAMBDA e : e.k # k), [k |-> k, v |-> v])

\* d[k] = v on an insertion-ordered dict: an existing key keeps its position.
DictSet(d, k, v) ==
    IF HasKey(d, k)
    THEN [i \in 1..Len(d) |-> IF d[i].k = k THEN [k |-> k, v |-> v] ELSE d[i]]
    ELSE Append(d, [k |-> k, v |-> v])

\* d.get(k, default)
DictGet(d, k, default) ==
    IF HasKey(d, k) THEN d[CHOOSE i \in 1..Len(d) : d[i].k = k].v ELSE default

\* The content of the dict a value refers to.
Content(h, v) == IF v.ref = 0 THEN <<>> ELSE h[v.ref]

\* isinstance(v, dict)
IsDict(v) == v.kind = "dict"

\* Truth value of a value in `if v:`.
Truthy(h, v) ==
    CASE v.kind = "str" -> v.s # <<>>
      [] v.kind = "dict" -> Content(h, v) # <<>>
      [] OTHER -> FALSE

(***************************************************************************)
(* parse_yaml                                                              *)
(***************************************************************************)
\* Variant: the root frame stored with depth 0.
RootFrameDepthZero == [depth |-> 0, ref |-> 1]

\* stack = [(-1, root)]
RootFrame == [depth |-> -1, ref |-> 1]

Top(st) == st[Len(st)]

\* Variant: the while loop compares with < instead of <=.
PopCondStrict(st, ind) == st # <<>> /\ ind < Top(st).depth

\* The condition of the while loop: stack and indent <= stack[-1][0]
PopCond(st, ind) == st # <<>> /\ ind <= Top(st).depth

\* The tokens "[]" and "{}" of `if value in ("[]", "{}")`.
EmptyListToken == <<91, 93>>

EmptyMapToken == <<123, 125>>

\* Variant: the empty-mapping token opens a nested mapping too.
NestsOrBraces(v) == v = <<>> \/ v = EmptyMapToken

\* The test that opens a nested mapping: value == ""
Nests(v) == v = <<>>

\* Variant: the insertion always targets the root mapping.
ParentRoot(st) == st[1].ref

\* parent = stack[-1][1]
Parent(st) == Top(st).ref

\* for raw_line in lines: the next line is read; a blank or comment line is
\* skipped, any other line is split into indent, key and value.
NextLine ==
    /\ pc = "loop"
    /\ ln < Len(lines)
    /\ ln' = ln + 1
    /\ LET raw_line == lines[ln + 1]
           stripped == Strip(raw_line)
           parts == Partition(stripped)
       IN IF Skipped(raw_line)
          THEN /\ pc' = "loop"
               /\ UNCHANGED <<indent, key, value>>
          ELSE /\ pc' = "pop"
               /\ indent' = IndentOf(raw_line)
               /\ key' = parts.key
               /\ value' = Strip(parts.value)
    /\ UNCHANGED <<lines, heap, stack, log, env, out>>

\* One iteration of the while loop: stack.pop()
PopFrame ==
    /\ pc = "pop"
    /\ PopCond(stack, indent)
    /\ stack' = SubSeq(stack, 1, Len(stack) - 1)
    /\ UNCHANGED <<lines, ln, pc, indent, key, value, heap, log, env, out>>

\* The insertion of one key into the parent mapping on top of the stack st:
\* a nested mapping is created and pushed for an empty value, "{}" and "[]"
\* store an empty container, any other value is stored as a scalar with one
\* pair of matching outer quotes removed.
Inserted(h, st, k, v, ind) ==
    LET parent == Parent(st)
        fresh == Len(h) + 1
    IN IF Nests(v)
       THEN [heap |-> Append([h EXCEPT ![parent] = DictSet(@, k, DictVal(fresh))], <<>>),
             stack |-> Append(st, [depth |-> ind, ref |-> fresh]),
             value |-> v,
             parsed |-> DictVal(fresh)]
       ELSE IF v = EmptyMapToken
       THEN [heap |-> Append([h EXCEPT ![parent] = DictSet(@, k, DictVal(fresh))], <<>>),
             stack |-> st,
             value |-> v,
             parsed |-> DictVal(fresh)]
       ELSE IF v = EmptyListToken
       THEN [heap |-> [h EXCEPT ![parent] = DictSet(@, k, ListVal)],
             stack |-> st,
             value |-> v,
             parsed |-> ListVal]
       ELSE [heap |-> [h EXCEPT ![parent] = DictSet(@, k, StrVal(Unquote(v)))],
             stack |-> st,
             value |-> Unquote(v),
             parsed |-> StrVal(Unquote(v))]

\* The rest of the loop body once the while loop has ended: the insertion
\* into the parent mapping, with a push for a nested mapping.  Reading
\* stack[-1] of an empty stack raises IndexError.
Insert ==
    /\ pc = "pop"
    /\ ~PopCond(stack, indent)
    /\ IF stack = <<>>
       THEN /\ pc' = "raised"
            /\ UNCHANGED <<value, heap, stack, log>>
       ELSE LET r == Inserted(heap, stack, key, value, indent)
            IN /\ pc' = "loop"
               /\ heap' = r.heap
               /\ stack' = r.stack
               /\ value' = r.value
               /\ log' = Append(log, [line |-> ln, parent |-> Parent(stack), key |-> key,
                                      val |-> r.parsed])
    /\ UNCHANGED <<lines, ln, indent, key, env, out>>

\* The for loop is exhausted: return root
Return ==
    /\ pc = "loop"
    /\ ln = Len(lines)
    /\ pc' = "returned"
    /\ UNCHANGED <<lines, ln, indent, key, value, heap, stack, log, env, out>>

NextParse == NextLine \/ PopFrame \/ Insert \/ Return

\* The stack the while loop leaves: the frames are popped from the top for
\* as long as PopCond holds.
Popped(st, ind) ==
    LET p == CHOOSE q \in 0..Len(st) :
                 /\ q = Len(st) \/ ~PopCond(<<st[Len(st) - q]>>, ind)
                 /\ \A j \in 1..q : PopCond(<<st[Len(st) - j + 1]>>, ind)
    IN SubSeq(st, 1, Len(st) - p)

\* One iteration of the for loop on the parser state s: the heap, the stack
\* and whether no error has been raised so far.
LineStep(s, raw_line) ==
    IF ~s.ok \/ Skipped(raw_line) THEN s
    ELSE LET parts == Partition(Strip(raw_line))
             ind == IndentOf(raw_line)
             st == Popped(s.stack, ind)
         IN IF st = <<>>
            THEN [s EXCEPT !.stack = st, !.ok = FALSE]
            ELSE LET r == Inserted(s.heap, st, parts.key, Strip(parts.value), ind)
                 IN [heap |-> r.heap, stack |-> r.stack, ok |-> TRUE]

RECURSIVE ParseRange(_, _, _, _)
\* The iterations of the for loop on the lines lo..hi, one after the other;
\* an error ends the loop.
ParseRange(s, ls, lo, hi) ==
    IF lo > hi THEN s
    ELSE IF lo = hi THEN LineStep(s, ls[lo])
    ELSE LET mid == (lo + hi) \div 2
             first == ParseRange(s, ls, lo, mid)
         IN IF first.ok THEN ParseRange(first, ls, mid + 1, hi) ELSE first

\* parse_yaml(lines) as a function of the lines: the heap whose node 1 is
\* the returned root, and ok = FALSE when an error is raised.
ParseYaml(ls) ==
    ParseRange([heap |-> << <<>> >>, stack |-> <<RootFrame>>, ok |-> TRUE], ls, 1, Len(ls))

(***************************************************************************)
(* main: the lookups and the five summary lines.                           *)
(***************************************************************************)
\* "ingress"
K_ingress == <<105, 110, 103, 114, 101, 115, 115>>

\* "host"
K_host == <<104, 111, 115, 116>>

\* "secrets"
K_secrets == <<115, 101, 99, 114, 101, 116, 115>>

\* "data"
K_data == <<100, 97, 116, 97>>

\* "postgres"
K_postgres == <<112, 111, 115, 116, 103, 114, 101, 115>>

\* "observability"
K_observability == <<111, 98, 115, 101, 114, 118, 97, 98, 105, 108, 105, 116, 121>>

\* "grafana"
K_grafana == <<103, 114, 97, 102, 97, 110, 97>>

\* "username"
K_username == <<117, 115, 101, 114, 110, 97, 109, 101>>

\* "password"
K_password == <<112, 97, 115, 115, 119, 111, 114, 100>>

\* "SMTP_URL"
K_SMTP_URL == <<83, 77, 84, 80, 95, 85, 82, 76>>

\* "JWT_SECRET"
K_JWT_SECRET == <<74, 87, 84, 95, 83, 69, 67, 82, 69, 84>>

\* "adminUser"
K_adminUser == <<97, 100, 109, 105, 110, 85, 115, 101, 114>>

\* "adminPassword"
K_adminPassword == <<97, 100, 109, 105, 110, 80, 97, 115, 115, 119, 111, 114, 100>>

\* v.get(k) on a dict value: the value under k, or None.
Get(h, v, k) == DictGet(Content(h, v), k, NoneVal)

Backslash == 92

\* The code points from 128 on that str.isprintable() rejects, as ranges
\* <<first, last>> (Unicode 14.0, the database of CPython 3.11).
NonPrintableRanges ==
    {
      <<128, 160>>, <<173, 173>>, <<888, 889>>, <<896, 899>>, <<907, 907>>, <<909, 909>>,
      <<930, 930>>, <<1328, 1328>>, <<1367, 1368>>, <<1419, 1420>>, <<1424, 1424>>, <<1480, 1487>>,
      <<1515, 1518>>, <<1525, 1541>>, <<1564, 1564>>, <<1757, 1757>>, <<1806, 1807>>, <<1867, 1868>>,
      <<1970, 1983>>, <<2043, 2044>>, <<2094, 2095>>, <<2111, 2111>>, <<2140, 2141>>, <<2143, 2143>>,
      <<2155, 2159>>, <<2191, 2199>>, <<2274, 2274>>, <<2436, 2436>>, <<2445, 2446>>, <<2449, 2450>>,
      <<2473, 2473>>, <<2481, 2481>>, <<2483, 2485>>, <<2490, 2491>>, <<2501, 2502>>, <<2505, 2506>>,
      <<2511, 2518>>, <<2520, 2523>>, <<2526, 2526>>, <<2532, 2533>>, <<2559, 2560>>, <<2564, 2564>>,
      <<2571, 2574>>, <<2577, 2578>>, <<2601, 2601>>, <<2609, 2609>>, <<2612, 2612>>, <<2615, 2615>>,
      <<2618, 2619>>, <<2621, 2621>>, <<2627, 2630>>, <<2633, 2634>>, <<2638, 2640>>, <<2642, 2648>>,
      <<2653, 2653>>, <<2655, 2661>>, <<2679, 2688>>, <<2692, 2692>>, <<2702, 2702>>, <<2706, 2706>>,
      <<2729, 2729>>, <<2737, 2737>>, <<2740, 2740>>, <<2746, 2747>>, <<2758, 2758>>, <<2762, 2762>>,
      <<2766, 2767>>, <<2769, 2783>>, <<2788, 2789>>, <<2802, 2808>>, <<2816, 2816>>, <<2820, 2820>>,
      <<2829, 2830>>, <<2833, 2834>>, <<2857, 2857>>, <<2865, 2865>>, <<2868, 2868>>, <<2874, 2875>>,
      <<2885, 2886>>, <<2889, 2890>>, <<2894, 2900>>, <<2904, 2907>>, <<2910, 2910>>, <<2916, 2917>>,
      <<2936, 2945>>, <<2948, 2948>>, <<2955, 2957>>, <<2961, 2961>>, <<2966, 2968>>, <<2971, 2971>>,
      <<2973, 2973>>, <<2976, 2978>>, <<2981, 2983>>, <<2987, 2989>>, <<3002, 3005>>, <<3011, 3013>>,
      <<3017, 3017>>, <<3022, 3023>>, <<3025, 3030>>, <<3032, 3045>>, <<3067, 3071>>, <<3085, 3085>>,
      <<3089, 3089>>, <<3113, 3113>>, <<3130, 3131>>, <<3141, 3141>>, <<3145, 3145>>, <<3150, 3156>>,
      <<3159, 3159>>, <<3163, 3164>>, <<3166, 3167>>, <<3172, 3173>>, <<3184, 3190>>, <<3213, 3213>>,
      <<3217, 3217>>, <<3241, 3241>>, <<3252, 3252>>, <<3258, 3259>>, <<3269, 3269>>, <<3273, 3273>>,
      <<3278, 3284>>, <<3287, 3292>>, <<3295, 3295>>, <<3300, 3301>>, <<3312, 3312>>, <<3315, 3327>>,
      <<3341, 3341>>, <<3345, 3345>>, <<3397, 3397>>, <<3401, 3401>>, <<3408, 3411>>, <<3428, 3429>>,
      <<3456, 3456>>, <<3460, 3460>>, <<3479, 3481>>, <<3506, 3506>>, <<3516, 3516>>, <<3518, 3519>>,
      <<3527, 3529>>, <<3531, 3534>>, <<3541, 3541>>, <<3543, 3543>>, <<3552, 3557>>, <<3568, 3569>>,
      <<3573, 3584>>, <<3643, 3646>>, <<3676, 3712>>, <<3715, 3715>>, <<3717, 3717>>, <<3723, 3723>>,
      <<3748, 3748>>, <<3750, 3750>>, <<3774, 3775>>, <<3781, 3781>>, <<3783, 3783>>, <<3790, 3791>>,
      <<3802, 3803>>, <<3808, 3839>>, <<3912, 3912>>, <<3949, 3952>>, <<3992, 3992>>, <<4029, 4029>>,
      <<4045, 4045>>, <<4059, 4095>>, <<4294, 4294>>, <<4296, 4300>>, <<4302, 4303>>, <<4681, 4681>>,
      <<4686, 4687>>, <<4695, 4695>>, <<4697, 4697>>, <<4702, 4703>>, <<4745, 4745>>, <<4750, 4751>>,
      <<4785, 4785>>, <<4790, 4791>>, <<4799, 4799>>, <<4801, 4801>>, <<4806, 4807>>, <<4823, 4823>>,
      <<4881, 4881>>, <<4886, 4887>>, <<4955, 4956>>, <<4989, 4991>>, <<5018, 5023>>, <<5110, 5111>>,
      <<5118, 5119>>, <<5760, 5760>>, <<5789, 5791>>, <<5881, 5887>>, <<5910, 5918>>, <<5943, 5951>>,
      <<5972, 5983>>, <<5997, 5997>>, <<6001, 6001>>, <<6004, 6015>>, <<6110, 6111>>, <<6122, 6127>>,
      <<6138, 6143>>, <<6158, 6158>>, <<6170, 6175>>, <<6265, 6271>>, <<6315, 6319>>, <<6390, 6399>>,
      <<6431, 6431>>, <<6444, 6447>>, <<6460, 6463>>, <<6465, 6467>>, <<6510, 6511>>, <<6517, 6527>>,
      <<6572, 6575>>, <<6602, 6607>>, <<6619, 6621>>, <<6684, 6685>>, <<6751, 6751>>, <<6781, 6782>>,
      <<6794, 6799>>, <<6810, 6815>>, <<6830, 6831>>, <<6863, 6911>>, <<6989, 6991>>, <<7039, 7039>>,
      <<7156, 7163>>, <<7224, 7226>>, <<7242, 7244>>, <<7305, 7311>>, <<7355, 7356>>, <<7368, 7375>>,
      <<7419, 7423>>, <<7958, 7959>>, <<7966, 7967>>, <<8006, 8007>>, <<8014, 8015>>, <<8024, 8024>>,
      <<8026, 8026>>, <<8028, 8028>>, <<8030, 8030>>, <<8062, 8063>>, <<8117, 8117>>, <<8133, 8133>>,
      <<8148, 8149>>, <<8156, 8156>>, <<8176, 8177>>, <<8181, 8181>>, <<8191, 8207>>, <<8232, 8239>>,
      <<8287, 8303>>, <<8306, 8307>>, <<8335, 8335>>, <<8349, 8351>>, <<8385, 8399>>, <<8433, 8447>>,
      <<8588, 8591>>, <<9255, 9279>>, <<9291, 9311>>, <<11124, 11125>>, <<11158, 11158>>, <<11508, 11512>>,
      <<11558, 11558>>, <<11560, 11564>>, <<11566, 11567>>, <<11624, 11630>>, <<11633, 11646>>, <<11671, 11679>>,
      <<11687, 11687>>, <<11695, 11695>>, <<11703, 11703>>, <<11711, 11711>>, <<11719, 11719>>, <<11727, 11727>>,
      <<11735, 11735>>, <<11743, 11743>>, <<11870, 11903>>, <<11930, 11930>>, <<12020, 12031>>, <<12246, 12271>>,
      <<12284, 12288>>, <<12352, 12352>>, <<12439, 12440>>, <<12544, 12548>>, <<12592, 12592>>, <<12687, 12687>>,
      <<12772, 12783>>, <<12831, 12831>>, <<42125, 42127>>, <<42183, 42191>>, <<42540, 42559>>, <<42744, 42751>>,
      <<42955, 42959>>, <<42962, 42962>>, <<42964, 42964>>, <<42970, 42993>>, <<43053, 43055>>, <<43066, 43071>>,
      <<43128, 43135>>, <<43206, 43213>>, <<43226, 43231>>, <<43348, 43358>>, <<43389, 43391>>, <<43470, 43470>>,
      <<43482, 43485>>, <<43519, 43519>>, <<43575, 43583>>, <<43598, 43599>>, <<43610, 43611>>, <<43715, 43738>>,
      <<43767, 43776>>, <<43783, 43784>>, <<43791, 43792>>, <<43799, 43807>>, <<43815, 43815>>, <<43823, 43823>>,
      <<43884, 43887>>, <<44014, 44015>>, <<44026, 44031>>, <<55204, 55215>>, <<55239, 55242>>, <<55292, 63743>>,
      <<64110, 64111>>, <<64218, 64255>>, <<64263, 64274>>, <<64280, 64284>>, <<64311, 64311>>, <<64317, 64317>>,
      <<64319, 64319>>, <<64322, 64322>>, <<64325, 64325>>, <<64451, 64466>>, <<64912, 64913>>, <<64968, 64974>>,
      <<64976, 65007>>, <<65050, 65055>>, <<65107, 65107>>, <<65127, 65127>>, <<65132, 65135>>, <<65141, 65141>>,
      <<65277, 65280>>, <<65471, 65473>>, <<65480, 65481>>, <<65488, 65489>>, <<65496, 65497>>, <<65501, 65503>>,
      <<65511, 65511>>, <<65519, 65531>>, <<65534, 65535>>, <<65548, 65548>>, <<65575, 65575>>, <<65595, 65595>>,
      <<65598, 65598>>, <<65614, 65615>>, <<65630, 65663>>, <<65787, 65791>>, <<65795, 65798>>, <<65844, 65846>>,
      <<65935, 65935>>, <<65949, 65951>>, <<65953, 65999>>, <<66046, 66175>>, <<66205, 66207>>, <<66257, 66271>>,
      <<66300, 66303>>, <<66340, 66348>>, <<66379, 66383>>, <<66427, 66431>>, <<66462, 66462>>, <<66500, 66503>>,
      <<66518, 66559>>, <<66718, 66719>>, <<66730, 66735>>, <<66772, 66775>>, <<66812, 66815>>, <<66856, 66863>>,
      <<66916, 66926>>, <<66939, 66939>>, <<66955, 66955>>, <<66963, 66963>>, <<66966, 66966>>, <<66978, 66978>>,
      <<66994, 66994>>, <<67002, 67002>>, <<67005, 67071>>, <<67383, 67391>>, <<67414, 67423>>, <<67432, 67455>>,
      <<67462, 67462>>, <<67505, 67505>>, <<67515, 67583>>, <<67590, 67591>>, <<67593, 67593>>, <<67638, 67638>>,
      <<67641, 67643>>, <<67645, 67646>>, <<67670, 67670>>, <<67743, 67750>>, <<67760, 67807>>, <<67827, 67827>>,
      <<67830, 67834>>, <<67868, 67870>>, <<67898, 67902>>, <<67904, 67967>>, <<68024, 68027>>, <<68048, 68049>>,
      <<68100, 68100>>, <<68103, 68107>>, <<68116, 68116>>, <<68120, 68120>>, <<68150, 68151>>, <<68155, 68158>>,
      <<68169, 68175>>, <<68185, 68191>>, <<68256, 68287>>, <<68327, 68330>>, <<68343, 68351>>, <<68406, 68408>>,
      <<68438, 68439>>, <<68467, 68471>>, <<68498, 68504>>, <<68509, 68520>>, <<68528, 68607>>, <<68681, 68735>>,
      <<68787, 68799>>, <<68851, 68857>>, <<68904, 68911>>, <<68922, 69215>>, <<69247, 69247>>, <<69290, 69290>>,
      <<69294, 69295>>, <<69298, 69375>>, <<69416, 69423>>, <<69466, 69487>>, <<69514, 69551>>, <<69580, 69599>>,
      <<69623, 69631>>, <<69710, 69713>>, <<69750, 69758>>, <<69821, 69821>>, <<69827, 69839>>, <<69865, 69871>>,
      <<69882, 69887>>, <<69941, 69941>>, <<69960, 69967>>, <<70007, 70015>>, <<70112, 70112>>, <<70133, 70143>>,
      <<70162, 70162>>, <<70207, 70271>>, <<70279, 70279>>, <<70281, 70281>>, <<70286, 70286>>, <<70302, 70302>>,
      <<70314, 70319>>, <<70379, 70383>>, <<70394, 70399>>, <<70404, 70404>>, <<70413, 70414>>, <<70417, 70418>>,
      <<70441, 70441>>, <<70449, 70449>>, <<70452, 70452>>, <<70458, 70458>>, <<70469, 70470>>, <<70473, 70474>>,
      <<70478, 70479>>, <<70481, 70486>>, <<70488, 70492>>, <<70500, 70501>>, <<70509, 70511>>, <<70517, 70655>>,
      <<70748, 70748>>, <<70754, 70783>>, <<70856, 70863>>, <<70874, 71039>>, <<71094, 71095>>, <<71134, 71167>>,
      <<71237, 71247>>, <<71258, 71263>>, <<71277, 71295>>, <<71354, 71359>>, <<71370, 71423>>, <<71451, 71452>>,
      <<71468, 71471>>, <<71495, 71679>>, <<71740, 71839>>, <<71923, 71934>>, <<71943, 71944>>, <<71946, 71947>>,
      <<71956, 71956>>, <<71959, 71959>>, <<71990, 71990>>, <<71993, 71994>>, <<72007, 72015>>, <<72026, 72095>>,
      <<72104, 72105>>, <<72152, 72153>>, <<72165, 72191>>, <<72264, 72271>>, <<72355, 72367>>, <<72441, 72703>>,
      <<72713, 72713>>, <<72759, 72759>>, <<72774, 72783>>, <<72813, 72815>>, <<72848, 72849>>, <<72872, 72872>>,
      <<72887, 72959>>, <<72967, 72967>>, <<72970, 72970>>, <<73015, 73017>>, <<73019, 73019>>, <<73022, 73022>>,
      <<73032, 73039>>, <<73050, 73055>>, <<73062, 73062>>, <<73065, 73065>>, <<73103, 73103>>, <<73106, 73106>>,
      <<73113, 73119>>, <<73130, 73439>>, <<73465, 73647>>, <<73649, 73663>>, <<73714, 73726>>, <<74650, 74751>>,
      <<74863, 74863>>, <<74869, 74879>>, <<75076, 77711>>, <<77811, 77823>>, <<78895, 82943>>, <<83527, 92159>>,
      <<92729, 92735>>, <<92767, 92767>>, <<92778, 92781>>, <<92863, 92863>>, <<92874, 92879>>, <<92910, 92911>>,
      <<92918, 92927>>, <<92998, 93007>>, <<93018, 93018>>, <<93026, 93026>>, <<93048, 93052>>, <<93072, 93759>>,
      <<93851, 93951>>, <<94027, 94030>>, <<94088, 94094>>, <<94112, 94175>>, <<94181, 94191>>, <<94194, 94207>>,
      <<100344, 100351>>, <<101590, 101631>>, <<101641, 110575>>, <<110580, 110580>>, <<110588, 110588>>, <<110591, 110591>>,
      <<110883, 110927>>, <<110931, 110947>>, <<110952, 110959>>, <<111356, 113663>>, <<113771, 113775>>, <<113789, 113791>>,
      <<113801, 113807>>, <<113818, 113819>>, <<113824, 118527>>, <<118574, 118575>>, <<118599, 118607>>, <<118724, 118783>>,
      <<119030, 119039>>, <<119079, 119080>>, <<119155, 119162>>, <<119275, 119295>>, <<119366, 119519>>, <<119540, 119551>>,
      <<119639, 119647>>, <<119673, 119807>>, <<119893, 119893>>, <<119965, 119965>>, <<119968, 119969>>, <<119971, 119972>>,
      <<119975, 119976>>, <<119981, 119981>>, <<119994, 119994>>, <<119996, 119996>>, <<120004, 120004>>, <<120070, 120070>>,
      <<120075, 120076>>, <<120085, 120085>>, <<120093, 120093>>, <<120122, 120122>>, <<120127, 120127>>, <<120133, 120133>>,
      <<120135, 120137>>, <<120145, 120145>>, <<120486, 120487>>, <<120780, 120781>>, <<121484, 121498>>, <<121504, 121504>>,
      <<121520, 122623>>, <<122655, 122879>>, <<122887, 122887>>, <<122905, 122906>>, <<122914, 122914>>, <<122917, 122917>>,
      <<122923, 123135>>, <<123181, 123183>>, <<123198, 123199>>, <<123210, 123213>>, <<123216, 123535>>, <<123567, 123583>>,
      <<123642, 123646>>, <<123648, 124895>>, <<124903, 124903>>, <<124908, 124908>>, <<124911, 124911>>, <<124927, 124927>>,
      <<125125, 125126>>, <<125143, 125183>>, <<125260, 125263>>, <<125274, 125277>>, <<125280, 126064>>, <<126133, 126208>>,
      <<126270, 126463>>, <<126468, 126468>>, <<126496, 126496>>, <<126499, 126499>>, <<126501, 126502>>, <<126504, 126504>>,
      <<126515, 126515>>, <<126520, 126520>>, <<126522, 126522>>, <<126524, 126529>>, <<126531, 126534>>, <<126536, 126536>>,
      <<126538, 126538>>, <<126540, 126540>>, <<126544, 126544>>, <<126547, 126547>>, <<126549, 126550>>, <<126552, 126552>>,
      <<126554, 126554>>, <<126556, 126556>>, <<126558, 126558>>, <<126560, 126560>>, <<126563, 126563>>, <<126565, 126566>>,
      <<126571, 126571>>, <<126579, 126579>>, <<126584, 126584>>, <<126589, 126589>>, <<126591, 126591>>, <<126602, 126602>>,
      <<126620, 126624>>, <<126628, 126628>>, <<126634, 126634>>, <<126652, 126703>>, <<126706, 126975>>, <<127020, 127023>>,
      <<127124, 127135>>, <<127151, 127152>>, <<127168, 127168>>, <<127184, 127184>>, <<127222, 127231>>, <<127406, 127461>>,
      <<127491, 127503>>, <<127548, 127551>>, <<127561, 127567>>, <<127570, 127583>>, <<127590, 127743>>, <<128728, 128732>>,
      <<128749, 128751>>, <<128765, 128767>>, <<128884, 128895>>, <<128985, 128991>>, <<129004, 129007>>, <<129009, 129023>>,
      <<129036, 129039>>, <<129096, 129103>>, <<129114, 129119>>, <<129160, 129167>>, <<129198, 129199>>, <<129202, 129279>>,
      <<129620, 129631>>, <<129646, 129647>>, <<129653, 129655>>, <<129661, 129663>>, <<129671, 129679>>, <<129709, 129711>>,
      <<129723, 129727>>, <<129734, 129743>>, <<129754, 129759>>, <<129768, 129775>>, <<129783, 129791>>, <<129939, 129939>>,
      <<129995, 130031>>, <<130042, 131071>>, <<173792, 173823>>, <<177977, 177983>>, <<178206, 178207>>, <<183970, 183983>>,
      <<191457, 194559>>, <<195102, 196607>>, <<201547, 917759>>, <<918000, 1114111>> }

\* not ch.isprintable(), as repr tests it for a character from 128 on.
NonPrintable(c) == \E r \in NonPrintableRanges : r[1] <= c /\ c <= r[2]

\* The lowercase hexadecimal digit of d in 0..15.
HexDigit(d) == IF d < 10 THEN 48 + d ELSE 87 + d

RECURSIVE Hex(_, _)
\* c as n lowercase hexadecimal digits.
Hex(c, n) == IF n = 0 THEN <<>> ELSE Hex(c \div 16, n - 1) \o <<HexDigit(c % 16)>>

\* What repr writes for one character between the quotes q.
EscapeChar(c, q) ==
    CASE c = q \/ c = Backslash -> <<Backslash, c>>
      [] c = 9 -> <<Backslash, 116>>
      [] c = 10 -> <<Backslash, 110>>
      [] c = 13 -> <<Backslash, 114>>
      [] c < 32 \/ c = 127 -> <<Backslash, 120>> \o Hex(c, 2)
      [] c >= 32 /\ c < 127 /\ c # q /\ c # Backslash -> <<c>>
      [] c > 127 /\ ~NonPrintable(c) -> <<c>>
      [] c > 127 /\ c < 256 /\ NonPrintable(c) -> <<Backslash, 120>> \o Hex(c, 2)
      [] c >= 256 /\ c < 65536 /\ NonPrintable(c) -> <<Backslash, 117>> \o Hex(c, 4)
      [] c >= 65536 /\ NonPrintable(c) -> <<Backslash, 85>> \o Hex(c, 8)

RECURSIVE Flatten(_, _, _)
\* The concatenation of the sequences seqs[lo], ..., seqs[hi].
Flatten(seqs, lo, hi) ==
    IF lo > hi THEN <<>>
    ELSE IF lo = hi THEN seqs[lo]
    ELSE LET mid == (lo + hi) \div 2
         IN Flatten(seqs, lo, mid) \o Flatten(seqs, mid + 1, hi)

\* The body of repr(s) between the quotes q.
EscapeStr(s, q) == Flatten([i \in 1..Len(s) |-> EscapeChar(s[i], q)], 1, Len(s))

\* repr(s) of a str: double quotes only when s has a ' and no ".
ReprStr(s) ==
    LET hasS == \E i \in 1..Len(s) : s[i] = SQuote
        hasD == \E i \in 1..Len(s) : s[i] = DQuote
        q == IF hasS /\ ~hasD THEN DQuote ELSE SQuote
    IN <<q>> \o EscapeStr(s, q) \o <<q>>

\* The greatest nesting repr can walk from the print statements of main
\* before the interpreter raises RecursionError: CPython 3.11 with its
\* default recursion limit of 1000, the script run as a program.  A str, an
\* empty list and an empty mapping count 1, a mapping with entries counts one
\* more than the deepest of its entries.
ReprLimit == 997

\* repr of the value v and the nesting it walks, given in done the results
\* for the dict nodes v can refer to.
ReprEntry(done, v) ==
    CASE v.kind = "str" -> [depth |-> 1, text |-> ReprStr(v.s)]
      [] v.kind = "dict" -> IF v.ref = 0 THEN [depth |-> 1, text |-> <<123, 125>>]
                            ELSE done[v.ref]
      [] v.kind = "list" -> [depth |-> 1, text |-> <<91, 93>>]
      [] OTHER -> [depth |-> 1, text |-> <<78, 111, 110, 101>>]

\* repr of the dict node n: its entries in iteration order, joined by ", ".
ReprNode(h, done, n) ==
    LET d == h[n]
        items == [i \in 1..Len(d) |->
                     (IF i > 1 THEN <<44, Space>> ELSE <<>>)
                     \o ReprStr(d[i].k) \o <<Colon, Space>> \o ReprEntry(done, d[i].v).text]
        depths == {ReprEntry(done, d[i].v).depth : i \in 1..Len(d)}
    IN [depth |-> IF d = <<>> THEN 1
                  ELSE 1 + CHOOSE m \in depths : \A x \in depths : x <= m,
        text |-> <<123>> \o Flatten(items, 1, Len(d)) \o <<125>>]

RECURSIVE ReprNodes(_, _, _, _)
\* The results for the dict nodes hi, hi - 1, ..., lo added to done.  A
\* mapping is created before the mappings stored in it, so the nodes an
\* entry refers to have greater numbers and are done first.
ReprNodes(h, done, lo, hi) ==
    IF lo > hi THEN done
    ELSE IF lo = hi THEN (lo :> ReprNode(h, done, lo)) @@ done
    ELSE LET mid == (lo + hi) \div 2
             upper == ReprNodes(h, done, mid + 1, hi)
         IN IF hi \in DOMAIN upper THEN ReprNodes(h, upper, lo, mid) ELSE upper

\* repr(v) and the nesting it walks.
ReprOf(h, v) ==
    ReprEntry(IF v.kind = "dict" /\ v.ref # 0
              THEN ReprNodes(h, [n \in {} |-> n], v.ref, Len(h))
              ELSE [n \in {} |-> n], v)

\* repr(v)
ReprVal(h, v) == ReprOf(h, v).text

\* The nesting repr(v) walks.
ReprDepth(h, v) == ReprOf(h, v).depth

\* The text an f-string interpolates for {v}: str(v).
PyStr(h, v) == IF v.kind = "str" THEN v.s ELSE ReprVal(h, v)

\* Formatting {v} raises RecursionError.
PyStrRaises(h, v) == v.kind # "str" /\ ReprDepth(h, v) > ReprLimit

\* The literal parts of the five f-strings.
\* "Ingress URL: http://"
TextIngress == <<73, 110, 103, 114, 101, 115, 115, 32, 85, 82, 76, 58, 32, 104, 116, 116, 112, 58, 47, 47>>

\* ":8080"
TextPort == <<58, 56, 48, 56, 48>>

\* "Postgres credentials: "
TextPostgres == <<80, 111, 115, 116, 103, 114, 101, 115, 32, 99, 114, 101, 100, 101, 110, 116, 105, 97, 108, 115, 58, 32>>

\* "SMTP URL: "
TextSmtp == <<83, 77, 84, 80, 32, 85, 82, 76, 58, 32>>

\* "JWT secret: "
TextJwt == <<74, 87, 84, 32, 115, 101, 99, 114, 101, 116, 58, 32>>

\* "Grafana credentials: "
TextGrafana == <<71, 114, 97, 102, 97, 110, 97, 32, 99, 114, 101, 100, 101, 110, 116, 105, 97, 108, 115, 58, 32>>

\* "/"
TextSlash == <<47>>

\* The order of the five print statements.
ReportOrder == <<"print_ingress", "print_postgres", "print_smtp", "print_jwt", "print_grafana">>

\* The statement that follows the print statement p.
After(p) ==
    LET i == CHOOSE j \in 1..Len(ReportOrder) : ReportOrder[j] = p
    IN IF i < Len(ReportOrder) THEN ReportOrder[i + 1] ELSE "exit"

\* config = parse_yaml(lines)
ParseCall ==
    /\ pc = "main"
    /\ LET r == ParseYaml(lines)
       IN /\ heap' = r.heap
          /\ pc' = IF r.ok THEN "returned" ELSE "raised"
    /\ UNCHANGED <<lines, ln, indent, key, value, stack, log, env, out>>

\* The lookups of ingress, secrets, postgres and grafana.
Lookup ==
    /\ pc = "returned"
    /\ LET config == DictVal(1)
           ingress == DictGet(Content(heap, config), K_ingress, DictVal(0))
           secrets_root == DictGet(Content(heap, config), K_secrets, DictVal(0))
           secrets_data == IF IsDict(secrets_root)
                           THEN DictGet(Content(heap, secrets_root), K_data, DictVal(0))
                           ELSE NoneVal
           observability == DictGet(Content(heap, config), K_observability, DictVal(0))
           grafana_value == IF IsDict(observability)
                            THEN DictGet(Content(heap, observability), K_grafana, DictVal(0))
                            ELSE NoneVal
       IN env' = [host |-> IF IsDict(ingress) THEN Get(heap, ingress, K_host) ELSE NoneVal,
                  secrets |-> IF IsDict(secrets_data) THEN secrets_data ELSE DictVal(0),
                  postgres |-> DictGet(Content(heap, config), K_postgres, DictVal(0)),
                  grafana |-> IF IsDict(grafana_value) THEN grafana_value ELSE DictVal(0)]
    /\ pc' = ReportOrder[1]
    /\ UNCHANGED <<parseVars, out>>

\* if host: print(f"Ingress URL: http://{host}:8080")
PrintIngress ==
    /\ pc = "print_ingress"
    /\ IF ~Truthy(heap, env.host)
       THEN /\ out' = out
            /\ pc' = After("print_ingress")
       ELSE IF PyStrRaises(heap, env.host)
       THEN /\ out' = out
            /\ pc' = "raised"
       ELSE /\ out' = Append(out, TextIngress \o PyStr(heap, env.host) \o TextPort)
            /\ pc' = After("print_ingress")
    /\ UNCHANGED <<parseVars, env>>

\* if isinstance(postgres, dict): ... if username and password: print(...)
PrintPostgres ==
    /\ pc = "print_postgres"
    /\ LET username == IF IsDict(env.postgres) THEN Get(heap, env.postgres, K_username) ELSE NoneVal
           password == IF IsDict(env.postgres) THEN Get(heap, env.postgres, K_password) ELSE NoneVal
       IN IF ~(IsDict(env.postgres) /\ Truthy(heap, username) /\ Truthy(heap, password))
          THEN /\ out' = out
               /\ pc' = After("print_postgres")
          ELSE IF PyStrRaises(heap, username) \/ PyStrRaises(heap, password)
          THEN /\ out' = out
               /\ pc' = "raised"
          ELSE /\ out' = Append(out, TextPostgres \o PyStr(heap, username)
                                     \o TextSlash \o PyStr(heap, password))
               /\ pc' = After("print_postgres")
    /\ UNCHANGED <<parseVars, env>>

\* smtp_url = secrets.get("SMTP_URL") ...; if smtp_url: print(...)
PrintSmtp ==
    /\ pc = "print_smtp"
    /\ LET smtp_url == IF IsDict(env.secrets) THEN Get(heap, env.secrets, K_SMTP_URL) ELSE NoneVal
       IN IF ~Truthy(heap, smtp_url)
          THEN /\ out' = out
               /\ pc' = After("print_smtp")
          ELSE IF PyStrRaises(heap, smtp_url)
          THEN /\ out' = out
               /\ pc' = "raised"
          ELSE /\ out' = Append(out, TextSmtp \o PyStr(heap, smtp_url))
               /\ pc' = After("print_smtp")
    /\ UNCHANGED <<parseVars, env>>

\* jwt_secret = secrets.get("JWT_SECRET") ...; if jwt_secret: print(...)
PrintJwt ==
    /\ pc = "print_jwt"
    /\ LET jwt_secret == IF IsDict(env.secrets) THEN Get(heap, env.secrets, K_JWT_SECRET) ELSE NoneVal
       IN IF ~Truthy(heap, jwt_secret)
          THEN /\ out' = out
               /\ pc' = After("print_jwt")
          ELSE IF PyStrRaises(heap, jwt_secret)
          THEN /\ out' = out
               /\ pc' = "raised"
          ELSE /\ out' = Append(out, TextJwt \o PyStr(heap, jwt_secret))
               /\ pc' = After("print_jwt")
    /\ UNCHANGED <<parseVars, env>>

\* grafana_user, grafana_pass; if grafana_user and grafana_pass: print(...)
PrintGrafana ==
    /\ pc = "print_grafana"
    /\ LET grafana_user == IF IsDict(env.grafana) THEN Get(heap, env.grafana, K_adminUser) ELSE NoneVal
           grafana_pass == IF IsDict(env.grafana) THEN Get(heap, env.grafana, K_adminPassword) ELSE NoneVal
       IN IF ~(Truthy(heap, grafana_user) /\ Truthy(heap, grafana_pass))
          THEN /\ out' = out
               /\ pc' = After("print_grafana")
          ELSE IF PyStrRaises(heap, grafana_user) \/ PyStrRaises(heap, grafana_pass)
          THEN /\ out' = out
               /\ pc' = "raised"
          ELSE /\ out' = Append(out, TextGrafana \o PyStr(heap, grafana_user)
                                     \o TextSlash \o PyStr(heap, grafana_pass))
               /\ pc' = After("print_grafana")
    /\ UNCHANGED <<parseVars, env>>

\* main: the call of parse_yaml, the lookups and the print statements.
Next ==
    \/ ParseCall
    \/ Lookup \/ PrintIngress \/ PrintPostgres \/ PrintSmtp \/ PrintJwt \/ PrintGrafana

(***************************************************************************)
(* Inputs of the parser.                                                   *)
(***************************************************************************)
Spaces(n) == [i \in 1..n |-> Space]

\* The letters the inputs are written with.
Ch == [a |-> 97, b |-> 98, c |-> 99, d |-> 100, g |-> 103, j |-> 106, k |-> 107, n |-> 110,
       p |-> 112, s |-> 115, u |-> 117, v |-> 118, w |-> 119, x |-> 120]

\* Key lines at every indentation: a nested mapping and a scalar.
KeyLines ==
    {Spaces(n) \o k \o s : n \in 0..MaxIndent, k \in {<<Ch.a>>, <<Ch.b>>},
                           s \in {<<Colon>>, <<Colon, Space, Ch.x>>}}

\* Empty-container tokens, a quoted scalar, and the lines the grammar does
\* not cover: blank, comment after a space and a no-break space, no colon,
\* a tab before the key with an unterminated quote and a trailing \r.
OddLines ==
    { <<Ch.a, Colon, Space>> \o EmptyMapToken,
      <<Space, Ch.b, Colon, Space>> \o EmptyListToken,
      <<>>,
      <<Space, 160, Hash, Ch.a, Colon>>,
      <<Space, Ch.b, Space>>,
      <<Ch.c, Colon, Space, SQuote, Ch.x, SQuote>>,
      <<9, Ch.a, Space, Colon, DQuote, Ch.x, 13>> }

ParseLines == KeyLines \cup OddLines

Inputs(L, n) == UNION {[1..m -> L] : m \in 0..n}

InitState(input, start) ==
    /\ lines = input
    /\ ln = 0
    /\ pc = start
    /\ indent = 0
    /\ key = <<>>
    /\ value = <<>>
    /\ heap = << <<>> >>
    /\ stack = <<RootFrame>>
    /\ log = <<>>
    /\ env = [host |-> NoneVal, secrets |-> NoneVal, postgres |-> NoneVal, grafana |-> NoneVal]
    /\ out = <<>>

Init == \E input \in Inputs(ParseLines, MaxLines) : InitState(input, "loop")

Spec == Init /\ [][NextParse]_vars

(***************************************************************************)
(* Inputs of the reporter: values files made of the four top-level         *)
(* sections, each in one of several shapes, in every order.                *)
(***************************************************************************)
Line(n, k, rest) == Spaces(n) \o k \o <<Colon>> \o rest

Child == Line(4, <<Ch.a>>, <<Space, Ch.x>>)

\* A child whose value has a quote and a control character: v'\x7f
OddChild == Line(4, <<Ch.k>>, <<Space, Ch.v, SQuote, 127>>)

IngressShapes ==
    << <<>>,
       <<Line(0, K_ingress, <<>>), Line(2, K_host, <<Space, Ch.d>>)>>,
       <<Line(0, K_ingress, <<>>), Line(2, K_host, <<>>), Child>>,
       <<Line(0, K_ingress, <<Space, Ch.x>>)>>,
       <<Line(0, K_ingress, <<>>), Line(2, K_host, <<Space, DQuote, DQuote>>)>> >>

PostgresShapes ==
    << <<>>,
       <<Line(0, K_postgres, <<>>), Line(2, K_password, <<Space, Ch.p>>), Line(2, K_username, <<Space, Ch.u>>)>>,
       <<Line(0, K_postgres, <<>>), Line(2, K_username, <<Space, Ch.u>>)>>,
       <<Line(0, K_postgres, <<>>), Line(2, K_username, <<>>), OddChild, Line(2, K_password, <<Space, Ch.p>>)>>,
       <<Line(0, K_postgres, <<Space>> \o EmptyListToken)>> >>

SecretsShapes ==
    << <<>>,
       <<Line(0, K_secrets, <<>>), Line(2, K_data, <<>>),
         Line(4, K_SMTP_URL, <<Space, Ch.s>>), Line(4, K_JWT_SECRET, <<Space, Ch.j>>)>>,
       <<Line(0, K_secrets, <<>>), Line(2, K_data, <<>>),
         Line(4, K_JWT_SECRET, <<Space, Ch.j>>), Line(4, K_SMTP_URL, <<Space, Ch.s>>)>>,
       <<Line(0, K_secrets, <<>>), Line(2, K_data, <<>>),
         Line(4, K_JWT_SECRET, <<Space, Ch.j>>), Line(4, K_SMTP_URL, <<>>), Line(6, <<Ch.a>>, <<Space, Ch.x>>)>>,
       <<Line(0, K_secrets, <<>>), Line(2, K_data, <<Space, Ch.x>>)>> >>

GrafanaShapes ==
    << <<>>,
       <<Line(0, K_observability, <<>>), Line(2, K_grafana, <<>>),
         Line(4, K_adminUser, <<Space, Ch.g>>), Line(4, K_adminPassword, <<Space, Ch.w>>)>>,
       <<Line(0, K_observability, <<>>), Line(2, K_grafana, <<>>),
         Line(4, K_adminPassword, <<Space, Ch.w>>)>>,
       <<Line(0, K_observability, <<>>), Line(2, K_grafana, <<Space>> \o EmptyMapToken)>> >>

Sections == <<IngressShapes, PostgresShapes, SecretsShapes, GrafanaShapes>>

Orders == {p \in [1..4 -> 1..4] : \A i, j \in 1..4 : p[i] = p[j] => i = j}

Choices == {c \in [1..4 -> 1..5] : \A i \in 1..4 : c[i] <= Len(Sections[i])}

Document(p, c) ==
    Sections[p[1]][c[p[1]]] \o Sections[p[2]][c[p[2]]]
    \o Sections[p[3]][c[p[3]]] \o Sections[p[4]][c[p[4]]]

\* ingress.host as a mapping nested n levels: n - 1 lines `k:`, each one
\* space deeper, and a line `k: x`.
DeepHost(n) ==
    <<Line(0, K_ingress, <<>>), Line(2, K_host, <<>>)>>
    \o [i \in 1..(n - 1) |-> Line(2 + i, <<Ch.k>>, <<>>)]
    \o <<Line(2 + n, <<Ch.k>>, <<Space, Ch.x>>)>>

\* Postgres credentials and a host nested to the last level repr can walk
\* and one level deeper.
DeepInputs == {PostgresShapes[2] \o DeepHost(n) : n \in {ReprLimit - 1, ReprLimit}}

ReportInputs == {Document(p, c) : p \in Orders, c \in Choices} \cup DeepInputs

InitReport == \E input \in ReportInputs : InitState(input, "main")

SpecReport == InitReport /\ [][Next]_vars

(***************************************************************************)
(* Inputs of the quote handling: a nested mapping, then a line `k: <value>` *)
(* inside it and a line `k:<value>` back at the top level, for all values   *)
(* made of quote characters and a letter.                                  *)
(***************************************************************************)
MaxValueLen == 3

QuoteValues == UNION {[1..n -> {DQuote, SQuote, Ch.x}] : n \in 1..MaxValueLen}

QuoteInput(v, w) ==
    << <<Ch.n, Colon>>, <<Space, Ch.k, Colon, Space>> \o v, <<Ch.k, Colon>> \o w \o <<Space>> >>

InitQuote == \E v, w \in QuoteValues : InitState(QuoteInput(v, w), "loop")

SpecQuote == InitQuote /\ [][NextParse]_vars


(***************************************************************************)
(* Operators the properties are stated with.                               *)
(***************************************************************************)
\* The count of leading space characters of a line.
LeadingSpaces(s) ==
    CHOOSE n \in 0..Len(s) :
        /\ \A i \in 1..n : s[i] = 32
        /\ n = Len(s) \/ s[n + 1] # 32

\* A line that is blank, or whose first non-whitespace character is #.
BlankOrComment(s) ==
    \/ \A i \in 1..Len(s) : s[i] \in Whitespace
    \/ \E i \in 1..Len(s) : s[i] = 35 /\ \A j \in 1..(i - 1) : s[j] \in Whitespace

\* The trimmed text after the first colon of a line.
TrimmedValue(s) == Strip(Partition(Strip(s)).value)

\* The dicts a set of dicts refers to directly.
ChildRefs(h, S) ==
    UNION {{h[r][i].v.ref : i \in {j \in 1..Len(h[r]) : h[r][j].v.kind = "dict"}} : r \in S}

RECURSIVE ReachFrom(_, _)
\* The dicts reachable from the dicts of S.
ReachFrom(h, S) ==
    LET T == S \cup ChildRefs(h, S) IN IF T = S THEN S ELSE ReachFrom(h, T)

\* The dicts reachable from root.
Live(h) == ReachFrom(h, {1})

StackRefs(st) == {st[i].ref : i \in 1..Len(st)}

\* The state in which the while loop has ended and stack[-1] is read.
AtInsert == pc = "pop" /\ ~PopCond(stack, indent)

\* C1: parse_yaml never fails: no IndexError is raised, the stack is
\* non-empty (its bottom is the root frame) whenever its top is read, and
\* the parse returns only after every line has been processed: each line
\* that is not blank or a comment has set its key.
C1_NeverFails ==
    /\ pc # "raised"
    /\ AtInsert => (stack # <<>> /\ stack[1].ref = 1)
    /\ pc = "returned" =>
         /\ ln = Len(lines)
         /\ {log[i].line : i \in 1..Len(log)} = {i \in 1..Len(lines) : ~BlankOrComment(lines[i])}

\* A parse has returned after nesting a line and coming back to the root.
C1_Witness ==
    /\ pc = "returned"
    /\ Len(log) = 3
    /\ log[2].parent # 1
    /\ log[3].parent = 1

\* C8: the stack has the root frame with depth -1 at the bottom, frame
\* depths strictly increase from bottom to top, and once the pop loop of a
\* line has ended the top frame's depth is less than the line's indentation.
C8_StackInvariant ==
    /\ stack # <<>>
    /\ stack[1] = [depth |-> -1, ref |-> 1]
    /\ \A i \in 1..(Len(stack) - 1) : stack[i].depth < stack[i + 1].depth
    /\ (pc = "pop" /\ ~ENABLED PopFrame) => Top(stack).depth < LeadingSpaces(lines[ln])

\* The pop loop of a line of indentation 1 has ended below an earlier,
\* deeper frame: three mappings were created and one frame is left above root.
C8_Witness ==
    /\ AtInsert
    /\ indent = 1
    /\ Len(stack) = 2
    /\ Len(heap) = 3

\* The entries of a dict other than the one of key k.
Others(d, k) == {d[i] : i \in {j \in 1..Len(d) : d[j].k # k}}

\* C9: a blank or comment line changes neither the tree nor the stack; any
\* other line sets exactly one key in exactly one mapping, the one of the top
\* frame once every frame of depth >= the line's leading spaces is popped;
\* no other mapping changes, and a frame is pushed exactly when the trimmed
\* value is empty.
C9_FrameEffect ==
    [][/\ (pc = "loop" /\ ln' = ln + 1 /\ BlankOrComment(lines[ln']))
            => (pc' = "loop" /\ heap' = heap /\ stack' = stack)
       /\ (pc = "loop" /\ ln' = ln + 1 /\ ~BlankOrComment(lines[ln']))
            => (pc' = "pop" /\ heap' = heap /\ stack' = stack)
       /\ (pc = "pop" /\ pc' = "pop")
            => /\ heap' = heap
               /\ Top(stack).depth >= LeadingSpaces(lines[ln])
               /\ stack' = SubSeq(stack, 1, Len(stack) - 1)
       /\ (pc = "pop" /\ pc' # "pop")
            => /\ pc' = "loop"
               /\ \A i \in 1..Len(stack) : stack[i].depth < LeadingSpaces(lines[ln])
               /\ LET p == Top(stack).ref
                      k == Partition(Strip(lines[ln])).key
                  IN /\ HasKey(heap'[p], k)
                     /\ Others(heap'[p], k) = Others(heap[p], k)
                     /\ Len(heap'[p]) = IF HasKey(heap[p], k) THEN Len(heap[p]) ELSE Len(heap[p]) + 1
                     /\ \A r \in 1..Len(heap) : r # p => heap'[r] = heap[r]
                     /\ \A r \in (Len(heap) + 1)..Len(heap') : heap'[r] = <<>>
                     /\ IF TrimmedValue(lines[ln]) = <<>>
                        THEN /\ Len(heap') = Len(heap) + 1
                             /\ DictGet(heap'[p], k, NoneVal) = DictVal(Len(heap'))
                             /\ stack' = Append(stack, [depth |-> LeadingSpaces(lines[ln]),
                                                        ref |-> Len(heap')])
                        ELSE stack' = stack
      ]_vars

\* A comment or blank line was skipped and a later line was inserted into
\* a nested mapping without pushing a frame.
C9_Witness ==
    /\ pc = "loop"
    /\ Len(log) = 2
    /\ ln = 3
    /\ log[2].line = 3
    /\ log[2].parent # 1
    /\ log[2].val.kind = "str"

\* C10: each non-root frame's mapping is stored under some key of the
\* mapping of the frame directly below it, so every mapping on the stack is
\* reachable from root; the mapping a line is inserted into is reachable,
\* and the old nested mapping of a key being overwritten has no frame.
C10_StackAttached ==
    /\ \A i \in 2..Len(stack) :
         \E j \in 1..Len(heap[stack[i - 1].ref]) :
             heap[stack[i - 1].ref][j].v = DictVal(stack[i].ref)
    /\ StackRefs(stack) \subseteq Live(heap)
    /\ AtInsert =>
         LET old == DictGet(heap[Top(stack).ref], key, NoneVal)
         IN /\ Top(stack).ref \in Live(heap)
            /\ old.kind = "dict" => old.ref \notin StackRefs(stack)

\* Two frames above root while an overwritten nested mapping is detached.
C10_Witness ==
    /\ Len(stack) = 3
    /\ \E r \in 1..Len(heap) : r \notin Live(heap)

\* The log entries of the lines whose value is an empty-container token.
ContainerEntries ==
    {i \in 1..Len(log) : TrimmedValue(lines[log[i].line]) \in {<<123, 125>>, <<91, 93>>}}

\* C4: a line whose value is {} or [] stores an empty mapping or an empty
\* sequence under its key and pushes no frame: the container has no frame,
\* it stays empty, the top frame right after the line is still the parent,
\* and the next more-indented line goes into the same parent mapping.
C4_EmptyContainers ==
    \A i \in ContainerEntries :
        /\ IF TrimmedValue(lines[log[i].line]) = <<91, 93>>
           THEN log[i].val = ListVal
           ELSE /\ log[i].val.kind = "dict"
                /\ heap[log[i].val.ref] = <<>>
                /\ log[i].val.ref \notin StackRefs(stack)
        /\ (i = Len(log) /\ pc = "loop" /\ ln = log[i].line) => Top(stack).ref = log[i].parent
        /\ (i < Len(log) /\ LeadingSpaces(lines[log[i + 1].line]) > LeadingSpaces(lines[log[i].line]))
              => log[i + 1].parent = log[i].parent

\* An empty-mapping line inside a nested mapping was followed by a more
\* indented line.
C4_Witness ==
    \E i \in ContainerEntries :
        /\ i < Len(log)
        /\ log[i].val.kind = "dict"
        /\ LeadingSpaces(lines[log[i + 1].line]) > LeadingSpaces(lines[log[i].line])
        /\ pc = "returned"

\* Pairs of log entries that set the same key of the same mapping.
Rewrites ==
    {x \in (1..Len(log)) \X (1..Len(log)) :
        /\ x[1] < x[2]
        /\ log[x[1]].parent = log[x[2]].parent
        /\ log[x[1]].key = log[x[2]].key}

\* C5: when two lines set the same key of the same mapping, the value under
\* the key is the one of the latest such line, and a mapping stored by an
\* earlier one, with everything under it, is unreachable from root.
C5_LastWriteWins ==
    \A x \in Rewrites :
        /\ (~\E y \in Rewrites : y[1] = x[2])
              => DictGet(heap[log[x[2]].parent], log[x[2]].key, NoneVal) = log[x[2]].val
        /\ log[x[1]].val.kind = "dict"
              => ReachFrom(heap, {log[x[1]].val.ref}) \cap Live(heap) = {}

\* A nested mapping with a child was overwritten by a scalar.
C5_Witness ==
    /\ pc = "returned"
    /\ \E x \in Rewrites :
          /\ log[x[1]].val.kind = "dict"
          /\ heap[log[x[1]].val.ref] # <<>>
          /\ log[x[2]].val.kind = "str"

RECURSIVE FirstKeys(_, _, _)
\* The keys the log entries i.. set in mapping r, each at its first line.
FirstKeys(r, i, seen) ==
    IF i > Len(log) THEN <<>>
    ELSE IF log[i].parent = r /\ log[i].key \notin seen
         THEN <<log[i].key>> \o FirstKeys(r, i + 1, seen \cup {log[i].key})
         ELSE FirstKeys(r, i + 1, seen)

\* C7: the keys of every mapping iterate in the order of the lines that
\* inserted them into that mapping (a key set again keeps the place of its
\* first line), also when the siblings are separated by nested child lines.
C7_SiblingOrder ==
    \A r \in 1..Len(heap) :
        [i \in 1..Len(heap[r]) |-> heap[r][i].k] = FirstKeys(r, 1, {})

\* Two siblings of root separated by a nested child line, the first one set
\* again afterwards.
C7_Witness ==
    /\ pc = "returned"
    /\ Len(heap[1]) = 2
    /\ \E i, j \in 1..Len(log) :
          /\ i < j
          /\ log[i].parent = 1
          /\ log[j].parent = 1
          /\ log[i].key # log[j].key
          /\ \E m \in (i + 1)..(j - 1) : log[m].parent # 1


\* The scalar the quote rule of the specification gives for a value: one
\* outer pair of equal quote characters, an opening and a distinct closing
\* one, is removed; any other value is kept.
StripOnePair(v) ==
    IF Len(v) >= 2 /\ v[1] = v[Len(v)] /\ v[1] \in {34, 39}
    THEN SubSeq(v, 2, Len(v) - 1)
    ELSE v

\* C6: for every non-empty trimmed value other than [] and {}, the scalar
\* stored is the value without its one outer pair of matching quotes when it
\* is wrapped in such a pair, and the value unmodified in every other case
\* (internal, unbalanced or mismatched quotes, a lone quote character).
C6_QuoteStripping ==
    \A i \in 1..Len(log) :
        LET v == TrimmedValue(lines[log[i].line])
        IN (v # <<>> /\ v \notin {<<123, 125>>, <<91, 93>>})
              => log[i].val = StrVal(StripOnePair(v))

(***************************************************************************)
(* Properties of the reporter.                                             *)
(***************************************************************************)
RECURSIVE PathGet(_, _, _)
\* The value at a path of keys below v; None when a segment is missing or
\* a node on the way is not a mapping.
PathGet(h, v, path) ==
    IF path = <<>> THEN v
    ELSE IF v.kind # "dict" THEN NoneVal
    ELSE PathGet(h, DictGet(Content(h, v), Head(path), NoneVal), Tail(path))

Field(path) == PathGet(heap, DictVal(1), path)

\* The fields each summary line interpolates, in the order of the table.
LineFields ==
    << {<<K_ingress, K_host>>},
       {<<K_postgres, K_username>>, <<K_postgres, K_password>>},
       {<<K_secrets, K_data, K_SMTP_URL>>},
       {<<K_secrets, K_data, K_JWT_SECRET>>},
       {<<K_observability, K_grafana, K_adminUser>>, <<K_observability, K_grafana, K_adminPassword>>} >>

\* The literal text each summary line starts with.
Templates ==
    <<TextIngress, TextPostgres, TextSmtp, TextJwt, TextGrafana>>

\* The place in the table of the template an output line matches.
Rank(line) ==
    CHOOSE t \in 1..Len(Templates) :
        /\ Len(line) >= Len(Templates[t])
        /\ SubSeq(line, 1, Len(Templates[t])) = Templates[t]

Emitted(t) == \E i \in 1..Len(out) : Rank(out[i]) = t

\* C2: a summary line is emitted only when every field it interpolates is a
\* non-empty string scalar; a missing segment or a field or intermediate node
\* of another kind skips the line, and no error is raised.
C2_OnlyStringFields ==
    /\ pc # "raised"
    /\ \A t \in 1..Len(Templates) :
          Emitted(t) => \A f \in LineFields[t] : Field(f).kind = "str" /\ Field(f).s # <<>>

\* C3: the output lines appear in the order Ingress URL, Postgres
\* credentials, SMTP URL, JWT secret, Grafana credentials, each at most once,
\* whatever the order of the keys in the source; whether a line is emitted
\* depends on its own fields only.
C3_FixedOrder ==
    /\ \A i, j \in 1..Len(out) : i < j => Rank(out[i]) < Rank(out[j])
    /\ pc \in {"exit", "raised"} =>
          \A t \in 1..Len(Templates) :
              Emitted(t) <=> \A f \in LineFields[t] : Truthy(heap, Field(f))

====
